---- MODULE Spec2Model ----
(***************************************************************************)
(* Graphos (libs/rust_graph): the graph store (DiGraph, Vertice, Edge),    *)
(* the depth-first search with edge classification (DiGraph::dfs_search)   *)
(* and the Bellman-Ford solver (find_shortest_path).                       *)
(***************************************************************************)
EXTENDS Integers, Sequences, FiniteSets, TLC

\* ------------------------------------------------------------------ bounds
\* the store on its own: keys 1..MaxStoreKey, at most MaxStoreEdges edges
MaxStoreKey == 2
MaxStoreEdges == 2
\* the graphs that are searched: keys 1..MaxKey, at most MaxEdges edges
MaxKey == 3
MaxEdges == 2
\* the graphs that are solved: keys 1..MaxPathKey, at most MaxPathEdges edges
MaxPathKey == 2
MaxPathEdges == 2

StoreKeys == 1..MaxStoreKey
\* the weights offered to the store on its own
StoreWeights == {1, 2}

Keys == 1..MaxKey
\* the weight the searched graphs are built with (the search ignores it)
DfsWeights == {1}

PathKeys == 1..MaxPathKey
\* the weights the solved graphs are built with
Weights == {-1, 1}
\* vertex counts that may be declared at construction (DiGraph::new)
Declared == 0..MaxPathKey

\* ------------------------------------------------------------------ state
VARIABLES
    vertices,       \* DiGraph.vertices: key -> Vertice
    vertices_num,   \* DiGraph.vertices_num, the declared vertex count
    EDGE_COUNTER,   \* the process-wide counter in Edge::new
    last,           \* the last call made: its name, and the key of an analysis
    pc,             \* which routine is running
    search_key,     \* dfs_search: the key the next exploration starts at
    stack,          \* explore_dfs_vertice: the explicit stack
    dfs_data,       \* the DfsStruct of the running (or last) search
    dfs_first,      \* the result of the previous search on this graph
    bf_start,       \* find_shortest_path: the source key
    bf_order,       \* the order iter_vertices / edges_borrow yield edges in
    bf_passes,      \* relaxation passes performed so far
    data            \* the Bellman under construction (pot, pred)

storeVars == <<vertices, vertices_num, EDGE_COUNTER, last>>
dfsVars == <<search_key, stack, dfs_data, dfs_first>>
bfVars == <<bf_start, bf_order, bf_passes, data>>
vars == <<vertices, vertices_num, EDGE_COUNTER, last, pc, search_key, stack,
          dfs_data, dfs_first, bf_start, bf_order, bf_passes, data>>

\* ------------------------------------------------------------------ maps
EmptyMap == <<>>

Put(f, k, v) == [x \in (DOMAIN f) \cup {k} |-> IF x = k THEN v ELSE f[x]]

Del(f, k) == [x \in (DOMAIN f) \ {k} |-> f[x]]

Has(f, k) == k \in DOMAIN f

\* ------------------------------------------------------------------ store
\* Edge::new without the counter: every edge gets the id 0
Edge_new_sameId(origin_vertice, destiny_vertice, weight) ==
    [id |-> 0, origin_key |-> origin_vertice,
     destiny_key |-> destiny_vertice, weight |-> weight]

\* Edge::new: the id is the current value of the counter
Edge_new(origin_vertice, destiny_vertice, weight) ==
    [id |-> EDGE_COUNTER, origin_key |-> origin_vertice,
     destiny_key |-> destiny_vertice, weight |-> weight]

\* Vertice::new: no outgoing and no incoming edges
Vertice_new(vertice_key) ==
    [key |-> vertice_key, edges |-> EmptyMap, back_edges |-> EmptyMap]

\* Vertice::add_edge: push onto the vector under (self.key, destiny)
Vertice_add_edge(vert, edge) ==
    LET key == <<vert.key, edge.destiny_key>>
        old == IF Has(vert.edges, key) THEN vert.edges[key] ELSE <<>>
    IN  [vert EXCEPT !.edges = Put(vert.edges, key, Append(old, edge))]

\* Vertice::add_back_edge: push onto the vector under (self.key, origin)
Vertice_add_back_edge(vert, edge) ==
    LET key == <<vert.key, edge.origin_key>>
        old == IF Has(vert.back_edges, key) THEN vert.back_edges[key] ELSE <<>>
    IN  [vert EXCEPT !.back_edges = Put(vert.back_edges, key, Append(old, edge))]

\* Vertice::remove_edge without its filter: the whole entry goes
Vertice_remove_edge_entry(vert, e) ==
    LET key == <<e.origin_key, e.destiny_key>>
    IN  IF Has(vert.edges, key)
        THEN [vert EXCEPT !.edges = Del(vert.edges, key)]
        ELSE vert

\* Vertice::remove_edge: drop the entry (origin, destiny), keep the edges of
\* another weight, and put the entry back unless nothing is left
Vertice_remove_edge(vert, e) ==
    LET key == <<e.origin_key, e.destiny_key>>
    IN  IF Has(vert.edges, key)
        THEN LET filtered_edges ==
                     SelectSeq(vert.edges[key], LAMBDA edge : edge.weight # e.weight)
             IN  IF filtered_edges # <<>>
                 THEN [vert EXCEPT !.edges = Put(vert.edges, key, filtered_edges)]
                 ELSE [vert EXCEPT !.edges = Del(vert.edges, key)]
        ELSE vert

\* DiGraph::vertice_exists
vertice_exists(vs, vert_key) == Has(vs, vert_key)

\* DiGraph::add_vertice: HashMap::insert of a fresh Vertice under the key
add_vertice(vs, vertice_key) == Put(vs, vertice_key, Vertice_new(vertice_key))

\* add_edge creating its origin without asking whether it exists
add_edge_endpoints_unchecked(vs, origin_vert, destiny_vert) ==
    LET v1 == add_vertice(vs, origin_vert)
    IN  IF ~vertice_exists(v1, destiny_vert)
        THEN add_vertice(v1, destiny_vert) ELSE v1

\* DiGraph::add_edge, the store after the two endpoint checks
add_edge_endpoints(vs, origin_vert, destiny_vert) ==
    LET v1 == IF ~vertice_exists(vs, origin_vert)
              THEN add_vertice(vs, origin_vert) ELSE vs
    IN  IF ~vertice_exists(v1, destiny_vert)
        THEN add_vertice(v1, destiny_vert) ELSE v1

\* add_edge without its second endpoint check: the destination is neither
\* created nor told of the edge
add_edge_origin_only(vs, edge) ==
    LET v1 == IF ~vertice_exists(vs, edge.origin_key)
              THEN add_vertice(vs, edge.origin_key) ELSE vs
    IN  [v1 EXCEPT ![edge.origin_key] = Vertice_add_edge(@, edge)]

\* DiGraph::add_edge, the whole store after the call
add_edge(vs, edge) ==
    LET v2 == add_edge_endpoints(vs, edge.origin_key, edge.destiny_key)
        v3 == [v2 EXCEPT ![edge.origin_key] = Vertice_add_edge(@, edge)]
    IN  [v3 EXCEPT ![edge.destiny_key] = Vertice_add_back_edge(@, edge)]

\* removeEdge(origin, destination, weight) on the store
remove_edge(vs, origin_vert, destiny_vert, weight) ==
    IF vertice_exists(vs, origin_vert)
    THEN [vs EXCEPT ![origin_vert] =
              Vertice_remove_edge(@, [id |-> -1, origin_key |-> origin_vert,
                                      destiny_key |-> destiny_vert,
                                      weight |-> weight])]
    ELSE vs

\* every edge stored in some vertex's forward adjacency
SeqRange(s) == {s[i] : i \in 1..Len(s)}

VerticeEdges(vert) == UNION {SeqRange(vert.edges[k]) : k \in DOMAIN vert.edges}

AllEdges(vs) == UNION {VerticeEdges(vs[k]) : k \in DOMAIN vs}

\* Vertice::get_Edges_clone: the vertex's edge vector, in insertion order
\* (edges are pushed as they are created, so in increasing id)
RECURSIVE SeqById(_)
SeqById(es) ==
    IF es = {} THEN <<>>
    ELSE LET e == CHOOSE x \in es : \A y \in es : x.id <= y.id
         IN  <<e>> \o SeqById(es \ {e})

get_Edges_clone(vert) == SeqById(VerticeEdges(vert))

\* Option<T>
None == [some |-> FALSE, value |-> <<>>]

Some(x) == [some |-> TRUE, value |-> x]

\* get_edges answering for an absent key as for a vertex without edges
get_edges_orEmpty(vs, vertice_key) ==
    IF ~Has(vs, vertice_key) THEN Some(<<>>) ELSE Some(get_Edges_clone(vs[vertice_key]))

\* DiGraph::get_edges: None for a key that is not in the store
get_edges(vs, vertice_key) ==
    IF ~Has(vs, vertice_key) THEN None ELSE Some(get_Edges_clone(vs[vertice_key]))

\* DiGraph::get_vertice_cloneRef: None for a key that is not in the store
get_vertice_cloneRef(vs, vertice_key) ==
    IF ~Has(vs, vertice_key) THEN None ELSE Some(vs[vertice_key])

\* DiGraph::get_sucessor: the destination keys of the vertex's edges, in the
\* order of its edge vector; None for a key that is not in the store
get_sucessor(vs, vertice_key) ==
    IF ~get_vertice_cloneRef(vs, vertice_key).some THEN None
    ELSE LET arestas == get_Edges_clone(vs[vertice_key])
         IN  Some([i \in 1..Len(arestas) |-> arestas[i].destiny_key])

\* DiGraph::get_predecessor: the origin key of every edge into the vertex,
\* once per edge (origin -> number of edges; the order of the list is the
\* map's iteration order); None for a key that is not in the store
get_predecessor(vs, vertice_key) ==
    IF ~get_vertice_cloneRef(vs, vertice_key).some THEN None
    ELSE LET into == {e \in AllEdges(vs) : e.destiny_key = vertice_key}
         IN  Some([o \in {e.origin_key : e \in into} |->
                      Cardinality({e \in into : e.origin_key = o})])

\* Edge::cmp compares the destiny keys only
Edge_le(a, b) == a.destiny_key <= b.destiny_key

\* arestas.sort(): a stable sort under Edge::cmp
RECURSIVE InsertSorted(_, _)
InsertSorted(s, e) ==
    IF s = <<>> THEN <<e>>
    ELSE IF Edge_le(s[Len(s)], e) THEN Append(s, e)
         ELSE Append(InsertSorted(SubSeq(s, 1, Len(s) - 1), e), s[Len(s)])

RECURSIVE SortFrom(_, _, _)
SortFrom(arestas, i, acc) ==
    IF i > Len(arestas) THEN acc
    ELSE SortFrom(arestas, i + 1, InsertSorted(acc, arestas[i]))

sort(arestas) == SortFrom(arestas, 1, <<>>)

\* DiGraph::get_vertices_length: the declared count
get_vertices_length == vertices_num

\* ------------------------------------------------------------------ DFS
\* DfsClassification
Arvore == "Arvore"
Retorno == "Retorno"
Avanco == "Avanco"
Cruzamento == "Cruzamento"

\* the sentinel dfs_search stops at (graph.rs:237)
NoKey == -1

\* DfsStruct::new: nothing discovered, finished, marked or classified
DfsStruct_new ==
    [tempo_descoberta |-> EmptyMap, tempo_termino |-> EmptyMap,
     fathers |-> EmptyMap, arestas_marked |-> EmptyMap,
     classificacao |-> <<>>, tempo |-> 0]

\* DfsStruct::already_visited: the vertex has been discovered
already_visited(d, key) == Has(d.tempo_descoberta, key)

\* DfsStruct::already_explored: the vertex is finished
already_explored(d, key) == Has(d.tempo_termino, key)

\* DfsStruct::start_exploring: Discovered, stamped with the global counter
start_exploring(d, key) ==
    [d EXCEPT !.tempo = @ + 1,
              !.tempo_descoberta = Put(@, key, d.tempo + 1)]

\* DfsStruct::finish_exploring: Finished, stamped with the global counter
finish_exploring(d, key) ==
    [d EXCEPT !.tempo = @ + 1,
              !.tempo_termino = Put(@, key, d.tempo + 1)]

\* DfsStruct::is_aresta_marked
is_aresta_marked(d, id) == Has(d.arestas_marked, id)

\* DfsStruct::classificate_aresta: one more classification of the edge
classificate_aresta(d, aresta, class) ==
    [d EXCEPT !.classificacao = Append(@, [id |-> aresta.id, class |-> class])]

\* DfsStruct::get_unexplored_vertice: the least unvisited key, or -1
get_unexplored_vertice(d, vs) ==
    LET unvisited == {k \in DOMAIN vs : ~already_visited(d, k)}
    IN  IF unvisited = {} THEN NoKey
        ELSE CHOOSE k \in unvisited : \A j \in unvisited : k <= j

\* Vec::pop: nothing happens on an empty vector
Pop(s) == IF s = <<>> THEN s ELSE SubSeq(s, 1, Len(s) - 1)

\* visit_aresta with the Tree test made on "finished" instead of "discovered"
visit_aresta_untilFinished(aresta, vertice_key, st) ==
    LET d1 == [st.d EXCEPT !.arestas_marked = Put(@, aresta.id, TRUE)]
    IN  IF ~already_explored(d1, aresta.destiny_key)
        THEN [d |-> classificate_aresta(
                       [d1 EXCEPT !.fathers = Put(@, aresta.destiny_key, vertice_key)],
                       aresta, Arvore),
              stack |-> Append(st.stack, aresta.destiny_key),
              descobriu_vertice |-> TRUE]
        ELSE IF d1.tempo_descoberta[vertice_key]
                    < d1.tempo_descoberta[aresta.destiny_key]
        THEN [st EXCEPT !.d = classificate_aresta(d1, aresta, Avanco)]
        ELSE [st EXCEPT !.d = classificate_aresta(d1, aresta, Cruzamento)]

\* visit_aresta with the discovery times of a finished destination compared
\* the other way round
visit_aresta_laterIsForward(aresta, vertice_key, st) ==
    LET d1 == [st.d EXCEPT !.arestas_marked = Put(@, aresta.id, TRUE)]
    IN  IF ~already_visited(d1, aresta.destiny_key)
        THEN [d |-> classificate_aresta(
                       [d1 EXCEPT !.fathers = Put(@, aresta.destiny_key, vertice_key)],
                       aresta, Arvore),
              stack |-> Append(st.stack, aresta.destiny_key),
              descobriu_vertice |-> TRUE]
        ELSE IF ~already_explored(d1, aresta.destiny_key)
        THEN [st EXCEPT !.d = classificate_aresta(d1, aresta, Retorno)]
        ELSE IF d1.tempo_descoberta[vertice_key]
                    > d1.tempo_descoberta[aresta.destiny_key]
        THEN [st EXCEPT !.d = classificate_aresta(d1, aresta, Avanco)]
        ELSE [st EXCEPT !.d = classificate_aresta(d1, aresta, Cruzamento)]

\* explore_dfs_vertice, the body of `for aresta in arestas` for one edge
\* (graph.rs:269-292); st is <<dfs_data, stack, descobriu_vertice>>
visit_aresta(aresta, vertice_key, st) ==
    LET d1 == [st.d EXCEPT !.arestas_marked = Put(@, aresta.id, TRUE)]
    IN  IF ~already_visited(d1, aresta.destiny_key)
        THEN [d |-> classificate_aresta(
                       [d1 EXCEPT !.fathers = Put(@, aresta.destiny_key, vertice_key)],
                       aresta, Arvore),
              stack |-> Append(st.stack, aresta.destiny_key),
              descobriu_vertice |-> TRUE]
        ELSE IF ~already_explored(d1, aresta.destiny_key)
        THEN [st EXCEPT !.d = classificate_aresta(d1, aresta, Retorno)]
        ELSE IF d1.tempo_descoberta[vertice_key]
                    < d1.tempo_descoberta[aresta.destiny_key]
        THEN [st EXCEPT !.d = classificate_aresta(d1, aresta, Avanco)]
        ELSE [st EXCEPT !.d = classificate_aresta(d1, aresta, Cruzamento)]

\* the for loop over the sorted edges, with its `continue` and its `break`
RECURSIVE for_arestas(_, _, _, _)
for_arestas(arestas, i, vertice_key, st) ==
    IF i > Len(arestas) \/ st.descobriu_vertice THEN st
    ELSE IF is_aresta_marked(st.d, arestas[i].id)
         THEN for_arestas(arestas, i + 1, vertice_key, st)
         ELSE for_arestas(arestas, i + 1, vertice_key,
                          visit_aresta(arestas[i], vertice_key, st))

\* explore_dfs_vertice finishing its vertex also in the iteration that
\* discovered a new one
explore_iteration_finishEarly(vs, stk, d) ==
    LET vertice_key == stk[Len(stk)]
        stack1 == Pop(stk)
        d1 == IF ~already_visited(d, vertice_key)
              THEN start_exploring(d, vertice_key) ELSE d
        arestas == get_edges(vs, vertice_key)
    IN  IF ~arestas.some
        THEN [d |-> finish_exploring(d1, vertice_key), stack |-> Pop(stack1)]
        ELSE LET st == for_arestas(sort(arestas.value), 1, vertice_key,
                                   [d |-> d1, stack |-> stack1,
                                    descobriu_vertice |-> FALSE])
             IN  IF ~st.descobriu_vertice
                 THEN [d |-> finish_exploring(st.d, vertice_key),
                       stack |-> Pop(st.stack)]
                 ELSE [d |-> finish_exploring(st.d, vertice_key), stack |-> st.stack]

\* explore_dfs_vertice, one iteration of `while stack.len() > 0`
\* (graph.rs:253-297), from the stack stk and the data d
explore_iteration(vs, stk, d) ==
    LET vertice_key == stk[Len(stk)]
        stack1 == Pop(stk)
        d1 == IF ~already_visited(d, vertice_key)
              THEN start_exploring(d, vertice_key) ELSE d
        arestas == get_edges(vs, vertice_key)
    IN  IF ~arestas.some
        THEN [d |-> finish_exploring(d1, vertice_key), stack |-> Pop(stack1)]
        ELSE LET st == for_arestas(sort(arestas.value), 1, vertice_key,
                                   [d |-> d1, stack |-> stack1,
                                    descobriu_vertice |-> FALSE])
             IN  IF ~st.descobriu_vertice
                 THEN [d |-> finish_exploring(st.d, vertice_key),
                       stack |-> Pop(st.stack)]
                 ELSE [d |-> st.d, stack |-> st.stack]

\* dfs_search going on with the DfsStruct of the previous call
dfs_search_data_kept(previous) == previous

\* dfs_search starts with a fresh DfsStruct (graph.rs:236)
dfs_search_data(previous) == DfsStruct_new

\* ------------------------------------------------------------------ Bellman-Ford
\* Infinity: Infinite, or Number(n)
Infinite == [inf |-> TRUE, n |-> 0]

Number(n) == [inf |-> FALSE, n |-> n]

\* Infinity + Infinity: Infinite absorbs
Inf_add(a, b) == IF a.inf \/ b.inf THEN Infinite ELSE Number(a.n + b.n)

\* Infinity > Infinity: Infinite is above every Number and equal to itself
Inf_gt(a, b) == IF b.inf THEN FALSE ELSE IF a.inf THEN TRUE ELSE a.n > b.n

\* the orders in which iter_vertices and edges_borrow can yield the edges:
\* vertex by vertex, entry by entry, each entry's vector front to back
RECURSIVE Perms(_)
Perms(S) ==
    IF S = {} THEN {<<>>}
    ELSE UNION {{<<e>> \o p : p \in Perms(S \ {e})} : e \in S}

SameEntry(a, b) == a.origin_key = b.origin_key /\ a.destiny_key = b.destiny_key

EdgeOrders(vs) ==
    {s \in Perms(AllEdges(vs)) :
        \A i, j \in 1..Len(s) : i < j =>
            /\ SameEntry(s[i], s[j]) => s[i].id < s[j].id
            /\ \A m \in i..j :
                 /\ s[i].origin_key = s[j].origin_key
                        => s[m].origin_key = s[i].origin_key
                 /\ SameEntry(s[i], s[j]) => SameEntry(s[i], s[m])}

\* find_shortest_path, the initial maps (bellman.rs:40-46)
bellman_init(vs, start) ==
    [pot |-> Put([k \in DOMAIN vs |-> Infinite], start, Number(0)),
     pred |-> [k \in DOMAIN vs |-> NoKey]]

\* the relaxation of one edge comparing the numbers only, an infinite
\* potential counting as 0
relax_numbersOnly(e, st) ==
    LET w == e.destiny_key
        v == e.origin_key
        v_d == st.pot[v]
        w_d == st.pot[w]
    IN  IF w_d.inf \/ w_d.n > v_d.n + e.weight
        THEN [pot |-> Put(st.pot, w, Number(v_d.n + e.weight)),
              pred |-> Put(st.pred, w, v),
              change |-> TRUE]
        ELSE st

\* find_shortest_path, the relaxation of one edge (bellman.rs:52-60);
\* st is the data with the pass's `change` flag
relax(e, st) ==
    LET w == e.destiny_key
        v == e.origin_key
        v_d == st.pot[v]
        w_d == st.pot[w]
    IN  IF Inf_gt(w_d, Inf_add(v_d, Number(e.weight)))
        THEN [pot |-> Put(st.pot, w, Number(v_d.n + e.weight)),
              pred |-> Put(st.pred, w, v),
              change |-> TRUE]
        ELSE st

\* one pass over every edge (bellman.rs:48-62)
RECURSIVE relax_from(_, _, _)
relax_from(order, i, st) ==
    IF i > Len(order) THEN st
    ELSE relax_from(order, i + 1, relax(order[i], st))

bellman_pass(order, dt) ==
    relax_from(order, 1, [pot |-> dt.pot, pred |-> dt.pred, change |-> FALSE])

\* ------------------------------------------------------------------ actions
NoData == [pot |-> EmptyMap, pred |-> EmptyMap]

NoRun == [run |-> FALSE]

Op(name, key) == [op |-> name, a |-> key]

\* DiGraph::new(vertice_num, edge_num)
Init ==
    /\ vertices = EmptyMap
    /\ vertices_num \in Declared
    /\ EDGE_COUNTER = 0
    /\ last = Op("new", NoKey)
    /\ pc = "build"
    /\ search_key = NoKey
    /\ stack = <<>>
    /\ dfs_data = DfsStruct_new
    /\ dfs_first = NoRun
    /\ bf_start = NoKey
    /\ bf_order = <<>>
    /\ bf_passes = 0
    /\ data = NoData

\* createVertex(key)
createVertex(key) ==
    /\ pc = "build"
    /\ vertices' = add_vertice(vertices, key)
    /\ last' = Op("add_vertice", NoKey)
    /\ UNCHANGED <<vertices_num, EDGE_COUNTER, pc>>
    /\ UNCHANGED dfsVars
    /\ UNCHANGED bfVars

\* addEdge(origin, destination, weight)
addEdge(origin, destiny, weight) ==
    /\ pc = "build"
    /\ vertices' = add_edge(vertices, Edge_new(origin, destiny, weight))
    /\ EDGE_COUNTER' = EDGE_COUNTER + 1
    /\ last' = Op("add_edge", NoKey)
    /\ UNCHANGED <<vertices_num, pc>>
    /\ UNCHANGED dfsVars
    /\ UNCHANGED bfVars

\* removeEdge(origin, destination, weight)
removeEdge(origin, destiny, weight) ==
    /\ pc = "build"
    /\ vertices' = remove_edge(vertices, origin, destiny, weight)
    /\ last' = Op("remove_edge", NoKey)
    /\ UNCHANGED <<vertices_num, EDGE_COUNTER, pc>>
    /\ UNCHANGED dfsVars
    /\ UNCHANGED bfVars

\* get_edges(key), get_sucessor(key), get_predecessor(key) and
\* get_vertice_cloneRef(key): each takes &self and returns its answer
getEdges(vertice_key) ==
    /\ pc = "build"
    /\ last' = Op("get_edges", vertice_key)
    /\ UNCHANGED <<vertices, vertices_num, EDGE_COUNTER, pc>>
    /\ UNCHANGED dfsVars
    /\ UNCHANGED bfVars

getSucessor(vertice_key) ==
    /\ pc = "build"
    /\ last' = Op("get_sucessor", vertice_key)
    /\ UNCHANGED <<vertices, vertices_num, EDGE_COUNTER, pc>>
    /\ UNCHANGED dfsVars
    /\ UNCHANGED bfVars

getPredecessor(vertice_key) ==
    /\ pc = "build"
    /\ last' = Op("get_predecessor", vertice_key)
    /\ UNCHANGED <<vertices, vertices_num, EDGE_COUNTER, pc>>
    /\ UNCHANGED dfsVars
    /\ UNCHANGED bfVars

getVertice(vertice_key) ==
    /\ pc = "build"
    /\ last' = Op("get_vertice_cloneRef", vertice_key)
    /\ UNCHANGED <<vertices, vertices_num, EDGE_COUNTER, pc>>
    /\ UNCHANGED dfsVars
    /\ UNCHANGED bfVars

\* dfs_search(search_key), up to the first exploration's start; a second
\* call repeats the search of the same graph from the same key
dfs_search(key) ==
    /\ \/ pc = "build" /\ dfs_first' = NoRun
       \/ /\ pc = "dfs_done" /\ ~dfs_first.run /\ key = last.a
          /\ dfs_first' = [run |-> TRUE, result |-> dfs_data]
    /\ last' = Op("dfs_search", key)
    /\ dfs_data' = dfs_search_data(dfs_data)
    /\ search_key' = key
    /\ IF key # NoKey
       THEN stack' = <<key>> /\ pc' = "explore"
       ELSE stack' = <<>> /\ pc' = "dfs_done"
    /\ UNCHANGED <<vertices, vertices_num, EDGE_COUNTER>>
    /\ UNCHANGED bfVars

\* explore_dfs_vertice: one iteration of the while loop
explore_step ==
    /\ pc = "explore"
    /\ stack # <<>>
    /\ LET r == explore_iteration(vertices, stack, dfs_data)
       IN  dfs_data' = r.d /\ stack' = r.stack
    /\ UNCHANGED <<pc, search_key, dfs_first>>
    /\ UNCHANGED storeVars
    /\ UNCHANGED bfVars

\* explore_dfs_vertice returns; dfs_search asks for the next root and either
\* starts the next exploration or returns (graph.rs:237-241)
explore_return ==
    /\ pc = "explore"
    /\ stack = <<>>
    /\ search_key' = get_unexplored_vertice(dfs_data, vertices)
    /\ IF search_key' # NoKey
       THEN stack' = <<search_key'>> /\ pc' = "explore"
       ELSE stack' = <<>> /\ pc' = "dfs_done"
    /\ UNCHANGED <<dfs_data, dfs_first>>
    /\ UNCHANGED storeVars
    /\ UNCHANGED bfVars

\* find_shortest_path(graph, start), up to the first pass
find_shortest_path(start) ==
    /\ pc = "build"
    /\ last' = Op("find_shortest_path", start)
    /\ bf_start' = start
    /\ bf_order' \in EdgeOrders(vertices)
    /\ bf_passes' = 0
    /\ data' = bellman_init(vertices, start)
    /\ pc' = IF 0 < get_vertices_length THEN "bellman" ELSE "bellman_done"
    /\ UNCHANGED <<vertices, vertices_num, EDGE_COUNTER>>
    /\ UNCHANGED dfsVars

\* find_shortest_path: one pass of `for _ in 0..graph.get_vertices_length()`
bellman_step ==
    /\ pc = "bellman"
    /\ LET st == bellman_pass(bf_order, data)
       IN  /\ data' = [pot |-> st.pot, pred |-> st.pred]
           /\ bf_passes' = bf_passes + 1
           /\ pc' = IF ~st.change \/ ~(bf_passes + 1 < get_vertices_length)
                    THEN "bellman_done" ELSE "bellman"
    /\ UNCHANGED <<bf_start, bf_order>>
    /\ UNCHANGED storeVars
    /\ UNCHANGED dfsVars

\* ------------------------------------------------------------------ specifications
\* the store alone
Next ==
    \/ \E key \in StoreKeys : createVertex(key)
    \/ \E o, d \in StoreKeys, w \in StoreWeights :
           EDGE_COUNTER < MaxStoreEdges /\ addEdge(o, d, w)
    \/ \E o, d \in StoreKeys, w \in StoreWeights : removeEdge(o, d, w)

\* the declared counts are read by find_shortest_path only
InitPlain == Init /\ vertices_num = 0

Spec == InitPlain /\ [][Next]_vars

\* the store under addEdge and removeEdge only
NextEdges ==
    \/ \E o, d \in StoreKeys, w \in StoreWeights :
           EDGE_COUNTER < MaxStoreEdges /\ addEdge(o, d, w)
    \/ \E o, d \in StoreKeys, w \in StoreWeights : removeEdge(o, d, w)

SpecEdges == InitPlain /\ [][NextEdges]_vars

\* the store, built and queried
NextQuery ==
    \/ \E key \in StoreKeys : createVertex(key)
    \/ \E o, d \in StoreKeys, w \in DfsWeights :
           EDGE_COUNTER < MaxStoreEdges /\ addEdge(o, d, w)
    \/ \E key \in StoreKeys : getEdges(key)
    \/ \E key \in StoreKeys : getSucessor(key)
    \/ \E key \in StoreKeys : getPredecessor(key)
    \/ \E key \in StoreKeys : getVertice(key)

SpecQuery == InitPlain /\ [][NextQuery]_vars

\* graphs built the way from_file builds them (addEdge per line), then
\* searched
NextDfs ==
    \/ \E o, d \in Keys, w \in DfsWeights :
           EDGE_COUNTER < MaxEdges /\ addEdge(o, d, w)
    \/ \E key \in Keys : dfs_search(key)
    \/ explore_step
    \/ explore_return

SpecDfs == InitPlain /\ [][NextDfs]_vars

\* graphs built by addEdge, then solved
NextBellman ==
    \/ \E o, d \in PathKeys, w \in Weights :
           EDGE_COUNTER < MaxPathEdges /\ addEdge(o, d, w)
    \/ \E start \in PathKeys : find_shortest_path(start)
    \/ bellman_step

SpecBellman == Init /\ [][NextBellman]_vars

\* ------------------------------------------------------------------ DFS properties
\* how many times the search classified the edge
TimesClassified(d, id) ==
    Cardinality({i \in 1..Len(d.classificacao) : d.classificacao[i].id = id})

\* the classes the search gave the edge
ClassesOf(d, id) ==
    {d.classificacao[i].class : i \in {j \in 1..Len(d.classificacao) :
                                           d.classificacao[j].id = id}}

Discovered(d, k) == already_visited(d, k)

Finished(d, k) == already_explored(d, k)

\* C1: when dfs_search has returned, every edge of the graph has exactly one
\* classification, one of Tree, Back, Forward, Cross
C1_EveryEdgeClassifiedOnce ==
    pc = "dfs_done" =>
        \A e \in AllEdges(vertices) :
            /\ TimesClassified(dfs_data, e.id) = 1
            /\ ClassesOf(dfs_data, e.id) \subseteq {Arvore, Retorno, Avanco, Cruzamento}

\* the [discovery, finish] intervals of a and b are disjoint or nested
Laminar(d, a, b) ==
    LET da == d.tempo_descoberta[a]
        fa == d.tempo_termino[a]
        db == d.tempo_descoberta[b]
        fb == d.tempo_termino[b]
    IN  \/ fa < db
        \/ fb < da
        \/ (da <= db /\ fb <= fa)
        \/ (db <= da /\ fa <= fb)

\* C2: after a complete run every two vertices have [discovery, finish]
\* intervals that are disjoint or nested, and a vertex reached through a
\* Tree edge finishes before the vertex it was reached from
C2_IntervalsNest ==
    pc = "dfs_done" =>
        /\ \A a, b \in DOMAIN vertices :
               /\ Discovered(dfs_data, a) /\ Finished(dfs_data, a)
               /\ Discovered(dfs_data, b) /\ Finished(dfs_data, b)
               /\ Laminar(dfs_data, a, b)
        /\ \A v \in DOMAIN dfs_data.fathers :
               LET u == dfs_data.fathers[v]
               IN  /\ Finished(dfs_data, u) /\ Finished(dfs_data, v)
                   /\ dfs_data.tempo_termino[v] < dfs_data.tempo_termino[u]

\* the edges the search classified as Tree
TreeEdges(d, vs) == {e \in AllEdges(vs) : Arvore \in ClassesOf(d, e.id)}

\* following fathers from k for at most n steps comes back to k
RECURSIVE ReturnsTo(_, _, _, _)
ReturnsTo(d, k, at, n) ==
    IF n = 0 \/ ~Has(d.fathers, at) THEN FALSE
    ELSE d.fathers[at] = k \/ ReturnsTo(d, k, d.fathers[at], n - 1)

\* C5: after a complete run the Tree edges are the predecessor map: at most
\* one Tree edge enters a vertex, fathers[v] = u exactly when an edge (u, v)
\* is classified Tree, and no vertex is its own ancestor
C5_TreeForest ==
    pc = "dfs_done" =>
        /\ \A e1, e2 \in TreeEdges(dfs_data, vertices) :
               e1.destiny_key = e2.destiny_key => e1 = e2
        /\ \A e \in TreeEdges(dfs_data, vertices) :
               /\ Has(dfs_data.fathers, e.destiny_key)
               /\ dfs_data.fathers[e.destiny_key] = e.origin_key
        /\ \A v \in DOMAIN dfs_data.fathers :
               \E e \in TreeEdges(dfs_data, vertices) :
                   e.destiny_key = v /\ e.origin_key = dfs_data.fathers[v]
        /\ \A v \in DOMAIN dfs_data.fathers :
               ~ReturnsTo(dfs_data, v, v, Cardinality(DOMAIN vertices) + 1)

\* a finished search in which a Tree edge was taken into a vertex that has
\* a second incoming edge
C5_Witness ==
    /\ pc = "dfs_done"
    /\ \E e \in TreeEdges(dfs_data, vertices) :
           \E f \in AllEdges(vertices) :
               f.id # e.id /\ f.destiny_key = e.destiny_key

\* C7: when dfs_search has returned, every vertex of the graph has been
\* discovered and is Finished
C7_AllFinished ==
    pc = "dfs_done" =>
        \A k \in DOMAIN vertices :
            Discovered(dfs_data, k) /\ Finished(dfs_data, k)

C4_CreateVertexIdempotent ==
    [][\A key \in StoreKeys :
           (createVertex(key) /\ vertice_exists(vertices, key))
               => vertices' = vertices]_vars

\* the edges removeEdge(o, d, w) is to delete
Matching(vs, o, d, w) ==
    {e \in AllEdges(vs) : e.origin_key = o /\ e.destiny_key = d /\ e.weight = w}

\* C8: in every state the store can be in, removeEdge(o, d, w) takes out of
\* o's forward adjacency exactly the edges to d of weight w; every other edge
\* stays, with its id, where it was, and with nothing to remove the store is
\* unchanged
C8_RemoveExactlyMatching ==
    pc = "build" =>
        LET all == AllEdges(vertices)
        IN  \A o, d \in StoreKeys, w \in StoreWeights :
                LET after == remove_edge(vertices, o, d, w)
                    gone == Matching(vertices, o, d, w)
                IN  /\ DOMAIN after = DOMAIN vertices
                    /\ AllEdges(after) = all \ gone
                    /\ \A k \in DOMAIN vertices :
                           /\ VerticeEdges(after[k]) \subseteq VerticeEdges(vertices[k])
                           /\ k # o => after[k] = vertices[k]
                    /\ gone = {} => after = vertices

\* the edges in the backward adjacency of vertex k
BackEdges(vert) ==
    UNION {SeqRange(vert.back_edges[p]) : p \in DOMAIN vert.back_edges}

\* removeEdge has taken an edge y away (y is still in its destination's
\* backward adjacency) and left an older parallel edge x of another weight
C8_Witness ==
    /\ last.op = "remove_edge"
    /\ \E x \in AllEdges(vertices) :
           \E y \in BackEdges(vertices[x.destiny_key]) :
               /\ y \notin AllEdges(vertices)
               /\ y.origin_key = x.origin_key /\ y.destiny_key = x.destiny_key
               /\ y.weight # x.weight /\ y.id > x.id

\* every edge held anywhere in the store, forward or backward
StoredEdges(vs) == AllEdges(vs) \cup UNION {BackEdges(vs[k]) : k \in DOMAIN vs}

\* C10: in every state the store can be in, right after addEdge(u, v, w)
\* the edges from u contain an edge to v of weight w with an id no stored
\* edge had, and the edges that were in the store are all still there,
\* unchanged
C10_AddEdgeAddsOne ==
    pc = "build" =>
        LET all == AllEdges(vertices)
            stored == StoredEdges(vertices)
        IN  \A u, v \in StoreKeys, w \in StoreWeights :
                LET after == add_edge(vertices, Edge_new(u, v, w))
                IN  /\ get_edges(after, u).some
                    /\ \E e \in SeqRange(get_edges(after, u).value) :
                           /\ e.origin_key = u /\ e.destiny_key = v /\ e.weight = w
                           /\ \A x \in stored : x.id # e.id
                           /\ AllEdges(after) = all \cup {e}

\* addEdge has just added an edge parallel to one that was there
C10_Witness ==
    /\ last.op = "add_edge"
    /\ \E e, f \in AllEdges(vertices) :
           /\ e.id = EDGE_COUNTER - 1 /\ f.id < e.id
           /\ e.origin_key = f.origin_key /\ e.destiny_key = f.destiny_key

\* ------------------------------------------------------------------ Bellman-Ford properties
Inf_min(a, b) == IF Inf_gt(a, b) THEN b ELSE a

\* the least of a finite set of Infinity values, Infinite for the empty set
RECURSIVE Inf_least(_)
Inf_least(S) ==
    IF S = {} THEN Infinite
    ELSE LET x == CHOOSE y \in S : TRUE
         IN  Inf_min(x, Inf_least(S \ {x}))

\* the least weight of a walk of at most n edges from start to each vertex
RECURSIVE WalkDist(_, _, _)
WalkDist(vs, start, n) ==
    IF n = 0
    THEN [k \in (DOMAIN vs) \cup {start} |->
              IF k = start THEN Number(0) ELSE Infinite]
    ELSE LET before == WalkDist(vs, start, n - 1)
         IN  [k \in DOMAIN before |->
                  Inf_min(before[k],
                          Inf_least({Inf_add(before[e.origin_key], Number(e.weight)) :
                                       e \in {x \in AllEdges(vs) : x.destiny_key = k}}))]

NumVertices(vs) == Cardinality((DOMAIN vs) \cup {bf_start})

\* the shortest-path weights from start (walks of fewer edges than vertices)
TrueDist(vs, start) == WalkDist(vs, start, NumVertices(vs) - 1)

\* no cycle of negative weight can be reached from start: one more edge
\* improves nothing
NoNegativeCycle(vs, start) ==
    WalkDist(vs, start, NumVertices(vs)) = TrueDist(vs, start)

\* C3: without a negative cycle reachable from the source, the returned
\* potential of every vertex is its shortest-path weight from the source,
\* Infinite when the vertex cannot be reached
C3_ShortestDistances ==
    pc = "bellman_done" /\ NoNegativeCycle(vertices, bf_start) =>
        \A v \in DOMAIN vertices : data.pot[v] = TrueDist(vertices, bf_start)[v]

\* the weights of the walks that follow pred back from x to the source,
\* taking at each step an edge (pred[x], x) of the graph
RECURSIVE PredWalkWeights(_, _, _)
PredWalkWeights(vs, x, n) ==
    IF x = bf_start THEN {0}
    ELSE IF n = 0 \/ ~Has(data.pred, x) THEN {}
    ELSE IF data.pred[x] = NoKey THEN {}
    ELSE {s + e.weight :
             s \in PredWalkWeights(vs, data.pred[x], n - 1),
             e \in {y \in AllEdges(vs) :
                        y.origin_key = data.pred[x] /\ y.destiny_key = x}}

\* C6: without a negative cycle reachable from the source, pred leads from
\* every reachable vertex back to the source along edges of the graph whose
\* weights sum to the vertex's potential, and the source has no predecessor
C6_PredecessorPath ==
    pc = "bellman_done" /\ NoNegativeCycle(vertices, bf_start) =>
        \A v \in DOMAIN vertices :
            ~TrueDist(vertices, bf_start)[v].inf =>
                /\ ~data.pot[v].inf
                /\ data.pot[v].n \in PredWalkWeights(vertices, v, NumVertices(vertices))
                /\ v = bf_start => data.pred[v] = NoKey

\* the same two statements when the declared vertex count is the number of
\* vertices in the graph
C3_WhenDeclaredRight ==
    vertices_num >= Cardinality(DOMAIN vertices) => C3_ShortestDistances

C6_WhenDeclaredRight ==
    vertices_num >= Cardinality(DOMAIN vertices) => C6_PredecessorPath

\* ------------------------------------------------------------------ store invariants
\* C11: after any sequence of createVertex, addEdge and removeEdge, the origin
\* key and the destination key of every stored edge are vertices of the graph
C11_EndpointsExist ==
    \A e \in StoredEdges(vertices) :
        /\ vertice_exists(vertices, e.origin_key)
        /\ vertice_exists(vertices, e.destiny_key)

\* createVertex has been called on a store that holds an edge between two
\* different vertices
C11_Witness ==
    /\ last.op = "add_vertice"
    /\ \E e \in AllEdges(vertices) : e.origin_key # e.destiny_key

\* the ids along a vector of edges strictly increase
IdsIncrease(es) == \A i, j \in 1..Len(es) : i < j => es[i].id < es[j].id

\* C12: edge ids are unique and increase in creation order: no two edges held
\* anywhere in the store (edges that removeEdge took out of the forward
\* adjacency are still in the backward one) carry the same id, every vector
\* holds its edges in increasing id, and the edge created next gets an id
\* above all of them
C12_IdsUniqueIncreasing ==
    LET stored == StoredEdges(vertices)
    IN  /\ \A e, f \in stored : e.id = f.id => e = f
        /\ \A k \in DOMAIN vertices :
               /\ \A p \in DOMAIN vertices[k].edges : IdsIncrease(vertices[k].edges[p])
               /\ \A p \in DOMAIN vertices[k].back_edges :
                      IdsIncrease(vertices[k].back_edges[p])
        /\ \A o, d \in StoreKeys, w \in StoreWeights :
               \A e \in stored : e.id < Edge_new(o, d, w).id

\* an edge was removed and an edge with the same endpoints and weight has
\* just been created
C12_Witness ==
    /\ last.op = "add_edge"
    /\ \E e \in AllEdges(vertices) :
           /\ e.id = EDGE_COUNTER - 1
           /\ \E y \in BackEdges(vertices[e.destiny_key]) :
                  /\ y \notin AllEdges(vertices)
                  /\ y.origin_key = e.origin_key /\ y.weight = e.weight
                  /\ y.id < e.id

\* the answer the query that was just made gives for its key
Answer ==
    IF last.op = "get_edges" THEN get_edges(vertices, last.a)
    ELSE IF last.op = "get_sucessor" THEN get_sucessor(vertices, last.a)
    ELSE IF last.op = "get_predecessor" THEN get_predecessor(vertices, last.a)
    ELSE get_vertice_cloneRef(vertices, last.a)

Queries == {"get_edges", "get_sucessor", "get_predecessor", "get_vertice_cloneRef"}

\* the query that was just made answered None for a key that is not in the
\* store and Some for a key that is
AnsweredByPresence ==
    last.op \in Queries =>
        /\ Answer.some = vertice_exists(vertices, last.a)
        /\ ~vertice_exists(vertices, last.a) => Answer = None

\* C13: a query for a key that is not in the store answers None, a query for
\* a key that is in the store answers Some, and no query changes the store
C13_AbsentKeyIsNone ==
    /\ []AnsweredByPresence
    /\ [][\A key \in StoreKeys :
              (\/ getEdges(key) \/ getSucessor(key)
               \/ getPredecessor(key) \/ getVertice(key))
                  => vertices' = vertices /\ EDGE_COUNTER' = EDGE_COUNTER]_vars

\* a query has just been made for a key that is not in a store that holds
\* an edge
C13_Witness ==
    /\ last.op \in Queries
    /\ ~vertice_exists(vertices, last.a)
    /\ AllEdges(vertices) # {}

\* ------------------------------------------------------------------ DFS behaviour
\* the stack without a top vertex that was pushed and is not yet discovered
DiscoveredPart(stk, d) ==
    IF stk # <<>> /\ ~Discovered(d, stk[Len(stk)]) THEN Pop(stk) ELSE stk

\* C14: at the start of every iteration of the DFS loop the stack holds
\* exactly the vertices that are Discovered and not Finished, each once, and
\* every vertex on it above the root was reached by a Tree edge from the one
\* beneath it
C14_StackIsOpenPath ==
    pc = "explore" =>
        LET open == DiscoveredPart(stack, dfs_data)
        IN  /\ SeqRange(open) =
                   {k \in DOMAIN vertices \cup SeqRange(stack) :
                        Discovered(dfs_data, k) /\ ~Finished(dfs_data, k)}
            /\ \A i, j \in 1..Len(stack) : i # j => stack[i] # stack[j]
            /\ \A i \in 2..Len(stack) :
                   /\ Has(dfs_data.fathers, stack[i])
                   /\ dfs_data.fathers[stack[i]] = stack[i - 1]

\* a is u or is met by following fathers from u for at most n steps
RECURSIVE AncestorOrSelf(_, _, _, _)
AncestorOrSelf(d, a, u, n) ==
    \/ a = u
    \/ /\ n > 0
       /\ Has(d.fathers, u)
       /\ AncestorOrSelf(d, a, d.fathers[u], n - 1)

\* the keys that can be reached from the keys S along at most n edges
RECURSIVE ReachableFrom(_, _, _)
ReachableFrom(vs, S, n) ==
    IF n = 0 THEN S
    ELSE ReachableFrom(vs, S \cup {e.destiny_key : e \in {x \in AllEdges(vs) :
                                                             x.origin_key \in S}},
                       n - 1)

\* the graph has a directed cycle: some edge's origin is reached from its
\* destination
HasCycle(vs) ==
    \E e \in AllEdges(vs) :
        e.origin_key \in ReachableFrom(vs, {e.destiny_key}, Cardinality(DOMAIN vs))

\* the edges the search classified as Back
BackClassified(d, vs) == {e \in AllEdges(vs) : Retorno \in ClassesOf(d, e.id)}

\* C15: every edge (u, v) classified Back has v = u or v an ancestor of u in
\* the Tree forest; a graph without a directed cycle gets no Back edge and a
\* graph with one gets at least one
C15_BackClosesCycle ==
    pc = "dfs_done" =>
        /\ \A e \in BackClassified(dfs_data, vertices) :
               AncestorOrSelf(dfs_data, e.destiny_key, e.origin_key,
                              Cardinality(DOMAIN vertices))
        /\ ~HasCycle(vertices) => BackClassified(dfs_data, vertices) = {}
        /\ HasCycle(vertices) => BackClassified(dfs_data, vertices) # {}

\* the edges that were processed when their destination was Finished: the
\* ones the search classified as Forward or Cross (graph.rs:284-292)
ToFinished(d, vs) ==
    {e \in AllEdges(vs) : ClassesOf(d, e.id) \cap {Avanco, Cruzamento} # {}}

\* C16: of the edges (u, v) processed when v was Finished, the Forward ones
\* are those where v is a proper descendant of u in the final Tree forest,
\* and the Cross ones are those where neither of u, v is an ancestor of the
\* other
C16_ForwardOrCross ==
    pc = "dfs_done" =>
        \A e \in ToFinished(dfs_data, vertices) :
            LET u == e.origin_key
                v == e.destiny_key
                n == Cardinality(DOMAIN vertices)
            IN  /\ Avanco \in ClassesOf(dfs_data, e.id)
                       <=> (u # v /\ AncestorOrSelf(dfs_data, u, v, n))
                /\ Cruzamento \in ClassesOf(dfs_data, e.id)
                       <=> (/\ ~AncestorOrSelf(dfs_data, u, v, n)
                            /\ ~AncestorOrSelf(dfs_data, v, u, n))

\* a finished search that processed an edge into a Finished vertex from a
\* vertex that has a Tree parent
C16_Witness ==
    /\ pc = "dfs_done"
    /\ \E e \in ToFinished(dfs_data, vertices) : Has(dfs_data.fathers, e.origin_key)

\* the timestamps given so far, discovery and finish
Stamps(d) ==
    {d.tempo_descoberta[k] : k \in DOMAIN d.tempo_descoberta}
        \cup {d.tempo_termino[k] : k \in DOMAIN d.tempo_termino}

\* C17: throughout a search a vertex is discovered once and finished at most
\* once, after its discovery: every tick of the counter is the one discovery
\* or the one finish of one vertex, a finished vertex was discovered earlier,
\* and all the outgoing edges of a finished vertex are marked
C17_StatusOnlyAdvances ==
    pc \in {"explore", "dfs_done"} =>
        /\ Stamps(dfs_data) = 1..dfs_data.tempo
        /\ dfs_data.tempo = Cardinality(DOMAIN dfs_data.tempo_descoberta)
                                + Cardinality(DOMAIN dfs_data.tempo_termino)
        /\ \A k \in DOMAIN dfs_data.tempo_termino :
               /\ Discovered(dfs_data, k)
               /\ dfs_data.tempo_descoberta[k] < dfs_data.tempo_termino[k]
               /\ vertice_exists(vertices, k) =>
                      \A e \in VerticeEdges(vertices[k]) :
                          is_aresta_marked(dfs_data, e.id)

\* a search has finished a vertex that has an outgoing edge, and discovered
\* a vertex after it
C17_Witness ==
    /\ pc = "dfs_done"
    /\ \E k \in DOMAIN dfs_data.tempo_termino :
           /\ vertice_exists(vertices, k)
           /\ VerticeEdges(vertices[k]) # {}
           /\ \E j \in DOMAIN dfs_data.tempo_descoberta :
                  dfs_data.tempo_descoberta[j] > dfs_data.tempo_termino[k]

\* ------------------------------------------------------------------ Bellman-Ford behaviour
\* some edge (u, v, w) with a finite potential at u still improves v
Relaxable(vs, dt) ==
    \E e \in AllEdges(vs) :
        /\ ~dt.pot[e.origin_key].inf
        /\ Inf_gt(dt.pot[e.destiny_key],
                  Inf_add(dt.pot[e.origin_key], Number(e.weight)))

\* C18: find_shortest_path returns after at most |V| passes, |V| the number
\* of vertices in the graph, and on return either no edge improves a
\* potential any more or exactly |V| passes were run
C18_PassesBoundedByVertices ==
    pc = "bellman_done" =>
        /\ bf_passes <= Cardinality(DOMAIN vertices)
        /\ \/ ~Relaxable(vertices, data)
           \/ bf_passes = Cardinality(DOMAIN vertices)

\* the same statement when the declared vertex count is the number of
\* vertices in the graph
C18_WhenDeclaredRight ==
    vertices_num = Cardinality(DOMAIN vertices) => C18_PassesBoundedByVertices

\* the data after the first i edges of the pass that starts from dt
MidPass(order, dt, i) ==
    relax_from(SubSeq(order, 1, i), 1,
               [pot |-> dt.pot, pred |-> dt.pred, change |-> FALSE])

\* the vertices that can be reached from the source
Reached(vs, start) == ReachableFrom(vs, {start}, Cardinality(DOMAIN vs))

\* C19: throughout find_shortest_path an edge whose origin has potential
\* Infinite changes nothing, no pass raises a potential, the source's
\* potential is at most 0, a vertex with potential Infinite has no
\* predecessor, and a vertex that cannot be reached from the source has
\* potential Infinite and no predecessor
C19_InfiniteOriginsRelaxNothing ==
    pc \in {"bellman", "bellman_done"} =>
        /\ \A i \in 0..Len(bf_order) :
               LET st == MidPass(bf_order, data, i)
               IN  \A e \in AllEdges(vertices) :
                       st.pot[e.origin_key].inf => relax(e, st) = st
        /\ LET st == bellman_pass(bf_order, data)
           IN  \A v \in DOMAIN data.pot : ~Inf_gt(st.pot[v], data.pot[v])
        /\ ~Inf_gt(data.pot[bf_start], Number(0))
        /\ \A v \in DOMAIN data.pred : data.pot[v].inf => data.pred[v] = NoKey
        /\ \A v \in (DOMAIN vertices) \ Reached(vertices, bf_start) :
               data.pot[v].inf /\ data.pred[v] = NoKey

\* find_shortest_path has returned after at least one pass over a graph
\* with an edge that leaves a vertex of potential Infinite
C19_Witness ==
    /\ pc = "bellman_done"
    /\ bf_passes >= 1
    /\ \E e \in AllEdges(vertices) :
           data.pot[e.origin_key].inf /\ ~data.pot[e.destiny_key].inf

\* ------------------------------------------------------------------ adjacency symmetry
\* C20: after any sequence of addEdge and removeEdge the backward adjacency
\* of every vertex v holds exactly the edges, by id, that some vertex's
\* forward adjacency holds with destination v
C20_AdjacencySymmetric ==
    \A v \in DOMAIN vertices :
        {e.id : e \in BackEdges(vertices[v])}
            = {e.id : e \in {x \in AllEdges(vertices) : x.destiny_key = v}}

====
